---------------------------- MODULE Spec2Model ----------------------------
(***************************************************************************)
(* A model of scripts/claude_review.py: main's linear pipeline (load the   *)
(* two input files, build the prompt, run the external tool once, resolve  *)
(* its response, write the result, print the summary, exit) and the        *)
(* response resolver of call_claude_cli with the JSON reading (json.loads) *)
(* and writing (json.dump) it relies on.                                   *)
(*                                                                         *)
(* A text is a sequence of characters, each a one-character string.  The   *)
(* fixed message literals of the program (the prefixes of the exception    *)
(* messages, the summaries, the template's parts), none of which holds a   *)
(* quote, a backslash or a newline, are each kept as ONE unit of a text.   *)
(*                                                                         *)
(* A JSON value is a record [t, v]: t its Python type after json.loads     *)
(* ("null", "bool", "num", "str", "arr", "obj"), v its content; a dict is  *)
(* the sequence of its <<key, value>> pairs in insertion order, keys       *)
(* unique.                                                                 *)
(*                                                                         *)
(* Environment assumptions: a path that exists is readable and the output  *)
(* path is writable (read_file and open() raise nothing but                *)
(* FileNotFoundError); the texts hold no escape but \" \\ \n and no number *)
(* with a fraction or an exponent, so Loads below is json.loads on them.   *)
(***************************************************************************)
EXTENDS Integers, Sequences, FiniteSets, TLC

---------------------------------------------------------------------------
(* JSON values *)

JNull == [t |-> "null", v |-> 0]

JBool(b) == [t |-> "bool", v |-> b]

JNum(n) == [t |-> "num", v |-> n]

JStr(s) == [t |-> "str", v |-> s]

JArr(items) == [t |-> "arr", v |-> items]

JObj(pairs) == [t |-> "obj", v |-> pairs]

\* isinstance(x, dict), isinstance(x, str)
IsDict(x) == x.t = "obj"

IsStr(x) == x.t = "str"

\* key in d
HasKey(d, k) == \E i \in 1..Len(d.v) : d.v[i][1] = k

\* d[k]
GetKey(d, k) == d.v[CHOOSE i \in 1..Len(d.v) : d.v[i][1] = k][2]

\* d.get(k): None when the key is absent
DictGet(d, k) == IF HasKey(d, k) THEN GetKey(d, k) ELSE JNull

\* d[k] = x on the pairs of a dict: a repeated key keeps its place and takes
\* the last value
SetKey(pairs, k, x) ==
    IF \E i \in 1..Len(pairs) : pairs[i][1] = k
    THEN [i \in 1..Len(pairs) |-> IF pairs[i][1] = k THEN <<k, x>> ELSE pairs[i]]
    ELSE Append(pairs, <<k, x>>)

\* bool(x): Python's truth value of a JSON value
Truthy(x) ==
    CASE x.t = "null" -> FALSE
      [] x.t = "bool" -> x.v
      [] x.t = "num"  -> x.v # 0
      [] OTHER        -> Len(x.v) > 0

---------------------------------------------------------------------------
(* json.loads *)

Whitespace == {" ", "\n"}

Digits == <<"0", "1", "2", "3", "4", "5", "6", "7", "8", "9">>

IsDigit(c) == \E d \in 1..Len(Digits) : Digits[d] = c

DigitVal(c) == (CHOOSE d \in 1..Len(Digits) : Digits[d] = c) - 1

ParseFail == [ok |-> FALSE, val |-> JNull, next |-> 0]

ParseOk(x, n) == [ok |-> TRUE, val |-> x, next |-> n]

\* the first index at or after i that holds no whitespace (Len(s)+1: none)
RECURSIVE SkipWs(_, _)
SkipWs(s, i) ==
    IF i <= Len(s) /\ s[i] \in Whitespace THEN SkipWs(s, i + 1) ELSE i

\* the last index before k, from j - 1 on, that holds no backslash inside
\* the string literal that opens before index j
LastOther(s, j, k) ==
    CHOOSE i \in (j - 1)..(k - 1) :
        /\ i = j - 1 \/ s[i] # "\\"
        /\ \A o \in (i + 1)..(k - 1) : s[o] = "\\"

\* whether the character at index k of that literal is escaped: an odd
\* number of backslashes runs up to it
Escaped(s, j, k) ==
    /\ k > j
    /\ s[k - 1] = "\\"
    /\ (k - 1 - LastOther(s, j, k)) % 2 = 1

\* the literal that opens before index j and closes at index close: a
\* backslash that is not escaped itself escapes the next character, which
\* must be a quote, a backslash or n; a newline inside is an error
StringBody(s, j, close) ==
    IF \E k \in j..(close - 1) :
           \/ s[k] = "\n"
           \/ Escaped(s, j, k) /\ s[k] \notin {"\"", "\\", "n"}
    THEN ParseFail
    ELSE ParseOk(JStr(SelectSeq([n \in 1..(close - j) |->
                                    IF Escaped(s, j, j + n - 1)
                                    THEN (IF s[j + n - 1] = "n" THEN "\n" ELSE s[j + n - 1])
                                    ELSE (IF s[j + n - 1] = "\\" THEN "" ELSE s[j + n - 1])],
                                LAMBDA c : c # "")),
                 close + 1)

\* whether the quote that closes the literal is at index k
Closes(s, j, k) == s[k] = "\"" /\ ~Escaped(s, j, k)

\* the string literal whose opening quote is before index j: it ends at
\* the first quote that is not escaped
ScanString(s, j) ==
    IF \E k \in j..Len(s) : Closes(s, j, k)
    THEN StringBody(s, j, CHOOSE k \in j..Len(s) :
                              Closes(s, j, k) /\ \A i \in j..(k - 1) : s[i] # "\"" \/ Escaped(s, j, i))
    ELSE ParseFail

\* the digits from index j on
RECURSIVE ScanDigits(_, _, _)
ScanDigits(s, j, acc) ==
    IF j <= Len(s) /\ IsDigit(s[j])
    THEN ScanDigits(s, j + 1, 10 * acc + DigitVal(s[j]))
    ELSE ParseOk(JNum(acc), j)

\* an integer at index i: 0, or a digit 1-9 and the digits after it
ScanNumber(s, i) ==
    IF i > Len(s) \/ ~IsDigit(s[i]) THEN ParseFail
    ELSE IF s[i] = "0" THEN ParseOk(JNum(0), i + 1)
    ELSE ScanDigits(s, i, 0)

Negated(n) == IF n.ok THEN ParseOk(JNum(0 - n.val.v), n.next) ELSE ParseFail

StartsWith(s, i, word) ==
    /\ i + Len(word) - 1 <= Len(s)
    /\ SubSeq(s, i, i + Len(word) - 1) = word

RECURSIVE ParseValue(_, _)
RECURSIVE ObjMembers(_, _, _)
RECURSIVE ArrElems(_, _, _)

\* an object after a member, at index m: its end, or a comma and the next
ObjNext(s, acc, m) ==
    IF m > Len(s) THEN ParseFail
    ELSE IF s[m] = "}" THEN ParseOk(JObj(acc), m + 1)
    ELSE IF s[m] = "," THEN ObjMembers(s, SkipWs(s, m + 1), acc)
    ELSE ParseFail

ObjAfterValue(s, acc, key, val) ==
    IF ~val.ok THEN ParseFail
    ELSE ObjNext(s, SetKey(acc, key, val.val), SkipWs(s, val.next))

ObjColon(s, acc, key, c) ==
    IF c > Len(s) \/ s[c] # ":" THEN ParseFail
    ELSE ObjAfterValue(s, acc, key, ParseValue(s, SkipWs(s, c + 1)))

ObjAfterKey(s, acc, key) ==
    IF ~key.ok THEN ParseFail ELSE ObjColon(s, acc, key.val.v, SkipWs(s, key.next))

\* the members of an object from index j (a key's opening quote) on
ObjMembers(s, j, acc) ==
    IF j > Len(s) \/ s[j] # "\"" THEN ParseFail
    ELSE ObjAfterKey(s, acc, ScanString(s, j + 1))

\* an array after an element, at index m: its end, or a comma and the next
ArrNext(s, acc, m) ==
    IF m > Len(s) THEN ParseFail
    ELSE IF s[m] = "]" THEN ParseOk(JArr(acc), m + 1)
    ELSE IF s[m] = "," THEN ArrElems(s, SkipWs(s, m + 1), acc)
    ELSE ParseFail

ArrAfterValue(s, acc, val) ==
    IF ~val.ok THEN ParseFail
    ELSE ArrNext(s, Append(acc, val.val), SkipWs(s, val.next))

\* the elements of an array from index j on
ArrElems(s, j, acc) == ArrAfterValue(s, acc, ParseValue(s, j))

\* an object, j the index after its brace and the whitespace that follows
ObjOpen(s, j) ==
    IF j <= Len(s) /\ s[j] = "}" THEN ParseOk(JObj(<<>>), j + 1)
    ELSE ObjMembers(s, j, <<>>)

\* an array, j the index after its bracket and the whitespace that follows
ArrOpen(s, j) ==
    IF j <= Len(s) /\ s[j] = "]" THEN ParseOk(JArr(<<>>), j + 1)
    ELSE ArrElems(s, j, <<>>)

\* the JSON value that starts at index i
ParseValue(s, i) ==
    IF i > Len(s) THEN ParseFail
    ELSE IF s[i] = "\"" THEN ScanString(s, i + 1)
    ELSE IF s[i] = "{" THEN ObjOpen(s, SkipWs(s, i + 1))
    ELSE IF s[i] = "[" THEN ArrOpen(s, SkipWs(s, i + 1))
    ELSE IF s[i] = "-" THEN Negated(ScanNumber(s, i + 1))
    ELSE IF IsDigit(s[i]) THEN ScanNumber(s, i)
    ELSE IF StartsWith(s, i, <<"n", "u", "l", "l">>) THEN ParseOk(JNull, i + 4)
    ELSE IF StartsWith(s, i, <<"t", "r", "u", "e">>) THEN ParseOk(JBool(TRUE), i + 4)
    ELSE IF StartsWith(s, i, <<"f", "a", "l", "s", "e">>) THEN ParseOk(JBool(FALSE), i + 5)
    ELSE ParseFail

\* nothing but whitespace may follow the value
WholeText(s, r) == IF r.ok /\ SkipWs(s, r.next) = Len(s) + 1 THEN r ELSE ParseFail

\* json.loads(s) of a text s: ok is FALSE where it raises JSONDecodeError
\* (no value, a malformed value, or anything but whitespace after the value)
Loads(s) == WholeText(s, ParseValue(s, SkipWs(s, 1)))

---------------------------------------------------------------------------
(* json.dump(result, f, ensure_ascii=False, indent=2) *)

\* indent=2
INDENT == 2

Spaces(n) == [i \in 1..n |-> " "]

\* the newline and the indentation that open a line at nesting level `level`
NewlineIndent(level) == <<"\n">> \o Spaces(INDENT * level)

\* str(n) of an integer
RECURSIVE IntToText(_)
IntToText(n) ==
    IF n < 0 THEN <<"-">> \o IntToText(0 - n)
    ELSE IF n < 10 THEN <<Digits[n + 1]>>
    ELSE IntToText(n \div 10) \o <<Digits[(n % 10) + 1]>>

\* the characters of a string with quote, backslash and newline escaped:
\* each character gives way to two places, the first a backslash or nothing
EscapeText(s) ==
    SelectSeq([n \in 1..(2 * Len(s)) |->
                  IF n % 2 = 1
                  THEN (IF s[(n + 1) \div 2] \in {"\"", "\\", "\n"} THEN "\\" ELSE "")
                  ELSE (IF s[n \div 2] = "\n" THEN "n" ELSE s[n \div 2])],
              LAMBDA c : c # "")

\* a string as a JSON string literal
EncodeString(s) == <<"\"">> \o EscapeText(s) \o <<"\"">>

RECURSIVE Dump(_, _)
RECURSIVE DumpItems(_, _, _)
RECURSIVE DumpPairs(_, _, _)

\* the elements of a list from the i-th on, each on its own line
DumpItems(items, i, level) ==
    IF i > Len(items) THEN <<>>
    ELSE Dump(items[i], level)
         \o (IF i < Len(items) THEN <<",">> \o NewlineIndent(level) ELSE <<>>)
         \o DumpItems(items, i + 1, level)

\* the pairs of a dict from the i-th on, each on its own line
DumpPairs(pairs, i, level) ==
    IF i > Len(pairs) THEN <<>>
    ELSE EncodeString(pairs[i][1]) \o <<":", " ">> \o Dump(pairs[i][2], level)
         \o (IF i < Len(pairs) THEN <<",">> \o NewlineIndent(level) ELSE <<>>)
         \o DumpPairs(pairs, i + 1, level)

\* the document json.dump writes for x at nesting level `level`
Dump(x, level) ==
    CASE x.t = "null" -> <<"n", "u", "l", "l">>
      [] x.t = "bool" -> IF x.v THEN <<"t", "r", "u", "e">> ELSE <<"f", "a", "l", "s", "e">>
      [] x.t = "num"  -> IntToText(x.v)
      [] x.t = "str"  -> EncodeString(x.v)
      [] x.t = "arr"  ->
            IF x.v = <<>> THEN <<"[", "]">>
            ELSE <<"[">> \o NewlineIndent(level + 1) \o DumpItems(x.v, 1, level + 1)
                 \o NewlineIndent(level) \o <<"]">>
      [] x.t = "obj"  ->
            IF x.v = <<>> THEN <<"{", "}">>
            ELSE <<"{">> \o NewlineIndent(level + 1) \o DumpPairs(x.v, 1, level + 1)
                 \o NewlineIndent(level) \o <<"}">>

---------------------------------------------------------------------------
(* str methods *)

\* s.strip()
RECURSIVE StripRight(_)
StripRight(s) ==
    IF s # <<>> /\ s[Len(s)] \in Whitespace THEN StripRight(SubSeq(s, 1, Len(s) - 1)) ELSE s

Strip(s) == StripRight(SubSeq(s, SkipWs(s, 1), Len(s)))

\* s.find(c): the 0-based index of the first c, -1 when there is none
Find(s, c) ==
    IF \E i \in 1..Len(s) : s[i] = c
    THEN (CHOOSE i \in 1..Len(s) : s[i] = c /\ \A j \in 1..(i - 1) : s[j] # c) - 1
    ELSE -1

\* s.rfind(c): the 0-based index of the last c, -1 when there is none
RFind(s, c) ==
    IF \E i \in 1..Len(s) : s[i] = c
    THEN (CHOOSE i \in 1..Len(s) : s[i] = c /\ \A j \in (i + 1)..Len(s) : s[j] # c) - 1
    ELSE -1

\* s[start:end], 0 <= start
Slice(s, start, end) == SubSeq(s, start + 1, IF end > Len(s) THEN Len(s) ELSE end)

\* s[:n]
Take(s, n) == SubSeq(s, 1, IF n > Len(s) THEN Len(s) ELSE n)

---------------------------------------------------------------------------
(* str() and repr() of a JSON value, as the f-strings of main format it.   *)
(* No text of the model holds a single quote, so repr() quotes a string    *)
(* with single quotes and leaves a double quote as it is.                  *)

ReprText(s) ==
    SelectSeq([n \in 1..(2 * Len(s)) |->
                  IF n % 2 = 1
                  THEN (IF s[(n + 1) \div 2] \in {"\\", "\n"} THEN "\\" ELSE "")
                  ELSE (IF s[n \div 2] = "\n" THEN "n" ELSE s[n \div 2])],
              LAMBDA c : c # "")

RECURSIVE PyRepr(_)
RECURSIVE ReprItems(_, _)
RECURSIVE ReprPairs(_, _)

ReprItems(items, i) ==
    IF i > Len(items) THEN <<>>
    ELSE PyRepr(items[i]) \o (IF i < Len(items) THEN <<",", " ">> ELSE <<>>)
         \o ReprItems(items, i + 1)

ReprPairs(pairs, i) ==
    IF i > Len(pairs) THEN <<>>
    ELSE <<"'">> \o ReprText(pairs[i][1]) \o <<"'", ":", " ">> \o PyRepr(pairs[i][2])
         \o (IF i < Len(pairs) THEN <<",", " ">> ELSE <<>>)
         \o ReprPairs(pairs, i + 1)

PyRepr(x) ==
    CASE x.t = "null" -> <<"N", "o", "n", "e">>
      [] x.t = "bool" -> IF x.v THEN <<"T", "r", "u", "e">> ELSE <<"F", "a", "l", "s", "e">>
      [] x.t = "num"  -> IntToText(x.v)
      [] x.t = "str"  -> <<"'">> \o ReprText(x.v) \o <<"'">>
      [] x.t = "arr"  -> <<"[">> \o ReprItems(x.v, 1) \o <<"]">>
      [] x.t = "obj"  -> <<"{">> \o ReprPairs(x.v, 1) \o <<"}">>

\* str(x): a string is its own text, anything else its repr
PyStr(x) == IF IsStr(x) THEN x.v ELSE PyRepr(x)

---------------------------------------------------------------------------
(* The keys and the fixed texts of the program *)

K_result == <<"r", "e", "s", "u", "l", "t">>

K_score == <<"s", "c", "o", "r", "e">>

K_recommendation == <<"r", "e", "c", "o", "m", "m", "e", "n", "d", "a", "t", "i", "o", "n">>

K_breakdown == <<"b", "r", "e", "a", "k", "d", "o", "w", "n">>

K_error == <<"e", "r", "r", "o", "r">>

K_summary == <<"s", "u", "m", "m", "a", "r", "y">>

K_problems_found == <<"p", "r", "o", "b", "l", "e", "m", "s", "_", "f", "o", "u", "n", "d">>

K_problems_fixed == <<"p", "r", "o", "b", "l", "e", "m", "s", "_", "f", "i", "x", "e", "d">>

K_strengths == <<"s", "t", "r", "e", "n", "g", "t", "h", "s">>

K_improvements == <<"i", "m", "p", "r", "o", "v", "e", "m", "e", "n", "t", "s">>

K_problems == <<"p", "r", "o", "b", "l", "e", "m", "s">>

K_fixes == <<"f", "i", "x", "e", "s">>

K_review == <<"r", "e", "v", "i", "e", "w">>

K_tests == <<"t", "e", "s", "t", "s">>

W_review == <<"r", "e", "v", "i", "e", "w">>

\* 'N/A', the default of result.get(...)
NOT_AVAILABLE == <<"N", "/", "A">>

\* DEFAULT_TIMEOUT, in seconds
DEFAULT_TIMEOUT == 180

\* the number of characters of the response the ValueError message carries
MESSAGE_CHARS == 500

\* FULLSTACK_PROMPT with its two fields filled in; the template's three
\* fixed parts are one unit each
FULLSTACK_PROMPT(diff_content, review_content) ==
    <<"<task, known problems> REVIEW.md:">> \o review_content
    \o <<"DIFF:">> \o diff_content \o <<"<criteria, answer format>">>

\* "(REVIEW.md не заполнен)"
REVIEW_PLACEHOLDER == <<"(REVIEW.md is not filled in)">>

\* {"problems": 0, "fixes": 0, "review": 0, "tests": 0}
ZeroBreakdown ==
    JObj(<< <<K_problems, JNum(0)>>, <<K_fixes, JNum(0)>>,
            <<K_review, JNum(0)>>, <<K_tests, JNum(0)>> >>)

---------------------------------------------------------------------------
(* read_file *)

Missing == [exists |-> FALSE, content |-> <<>>]

File(text) == [exists |-> TRUE, content |-> text]

\* a read_file that answers a missing file with a note instead of ""
read_file_noted(file) == IF file.exists THEN file.content ELSE <<"(no such file)">>

\* read_file(path): the content of the file, "" on FileNotFoundError
read_file(file) == IF file.exists THEN file.content ELSE <<>>

---------------------------------------------------------------------------
(* call_claude_cli *)

NoExc == [type |-> "", msg |-> <<>>]

\* what a call leaves behind: whether it raised and what, the value it
\* returned, and its locals (response, response_text and, in `attempts`,
\* the texts it handed to json.loads for the final result, in order)
NoCall ==
    [raised |-> FALSE, exc |-> NoExc, value |-> JNull, timed_out |-> FALSE,
     unwrapped |-> FALSE, response |-> <<>>, response_text |-> JNull,
     attempts |-> <<>>]

\* str(e) of the JSONDecodeError and the TypeError json.loads raises and of
\* the error of a process that could not be started: the library's own
\* words, none of which quotes the document
DECODE_MESSAGE == <<"Expecting value: line 1 column 1 (char 0)">>

TYPE_MESSAGE == <<"the JSON object must be str, bytes or bytearray">>

SPAWN_MESSAGE == <<"[Errno 2] No such file or directory: 'claude'">>

\* a timeout answered like an error: score 0 and an error field
TimeoutRecord_as_error ==
    JObj(<< <<K_score, JNum(0)>>,
            <<K_recommendation, JStr(W_review)>>,
            <<K_breakdown, ZeroBreakdown>>,
            <<K_error, JStr(<<"timeout">>)>> >>)

\* the dict returned on subprocess.TimeoutExpired
TimeoutRecord ==
    JObj(<< <<K_score, JNum(50)>>,
            <<K_recommendation, JStr(W_review)>>,
            <<K_summary, JStr(<<"AI review did not finish in time. Manual check required.">>)>>,
            <<K_breakdown, ZeroBreakdown>>,
            <<K_problems_found, JArr(<<>>)>>,
            <<K_problems_fixed, JArr(<<>>)>>,
            <<K_strengths, JArr(<<>>)>>,
            <<K_improvements, JArr(<<JStr(<<"Automatic check could not be run">>)>>)>> >>)

\* cli_response, outer being json.loads(response): its value, and
\* {"result": response} when it raised JSONDecodeError
CliResponseOf(stripped, outer) ==
    IF outer.ok THEN outer.val ELSE JObj(<< <<K_result, JStr(stripped)>> >>)

CliResponse(stripped) == CliResponseOf(stripped, Loads(stripped))

\* an unwrapping that forgets the case of a bare JSON string
ResponseTextOf_no_string(stripped, cli_response) ==
    IF IsDict(cli_response) /\ HasKey(cli_response, K_result) THEN GetKey(cli_response, K_result)
    ELSE JStr(stripped)

\* response_text: the text of the answer taken out of cli_response
ResponseTextOf(stripped, cli_response) ==
    IF IsDict(cli_response) /\ HasKey(cli_response, K_result) THEN GetKey(cli_response, K_result)
    ELSE IF IsStr(cli_response) THEN cli_response
    ELSE JStr(stripped)

ResponseText(stripped) == ResponseTextOf(stripped, CliResponse(stripped))

\* start = response_text.find('{')
BraceStart(text) == Find(text, "{")

\* an end index that leaves the last '}' out
BraceEnd_short(text) == RFind(text, "}")

\* end = response_text.rfind('}') + 1
BraceEnd(text) == RFind(text, "}") + 1

\* return json.loads(response_text[start:end]): the JSONDecodeError of this
\* call is raised inside an except block and leaves the function
ParseSlice(text, slice, inner) ==
    IF inner.ok
    THEN [raised |-> FALSE, value |-> inner.val, exc |-> NoExc, attempts |-> <<text, slice>>]
    ELSE [raised |-> TRUE, value |-> JNull, attempts |-> <<text, slice>>,
          exc |-> [type |-> "JSONDecodeError", msg |-> DECODE_MESSAGE]]

\* the except block of the inner try: the text from the first '{' to the
\* last '}', and the ValueError when there is none
ParseBraces(text, start, end) ==
    IF start # -1 /\ end > start
    THEN ParseSlice(text, Slice(text, start, end), Loads(Slice(text, start, end)))
    ELSE [raised |-> TRUE, value |-> JNull, attempts |-> <<text>>,
          exc |-> [type |-> "ValueError",
                   msg |-> <<"Could not parse JSON from the response: ">>
                           \o Take(text, MESSAGE_CHARS)]]

\* the inner try, direct being json.loads(response_text)
ParseDirect(text, direct) ==
    IF direct.ok
    THEN [raised |-> FALSE, value |-> direct.val, exc |-> NoExc, attempts |-> <<text>>]
    ELSE ParseBraces(text, BraceStart(text), BraceEnd(text))

\* the parse of response_text.  json.loads of something that is no string
\* raises TypeError, which the inner try does not catch
ParseResponse(candidate) ==
    IF ~IsStr(candidate)
    THEN [raised |-> TRUE, value |-> JNull, attempts |-> <<>>,
          exc |-> [type |-> "TypeError", msg |-> TYPE_MESSAGE]]
    ELSE ParseDirect(candidate.v, Loads(candidate.v))

Resolved(stripped, candidate, parsed) ==
    [raised |-> parsed.raised, exc |-> parsed.exc, value |-> parsed.value,
     timed_out |-> FALSE, unwrapped |-> TRUE, response |-> stripped,
     response_text |-> candidate, attempts |-> parsed.attempts]

ResolveText(stripped, candidate) == Resolved(stripped, candidate, ParseResponse(candidate))

\* call_claude_cli from `response = result.stdout.strip()` on
Resolve(stripped) == ResolveText(stripped, ResponseText(stripped))

\* call_claude_cli(prompt, timeout) when the external process behaves as
\* p: it cannot be started, or it runs for p.duration seconds and ends
\* with p.returncode, p.stdout and p.stderr
call_claude_cli(text, timeout, p) ==
    IF ~p.started
    THEN [NoCall EXCEPT !.raised = TRUE,
                        !.exc = [type |-> "FileNotFoundError", msg |-> SPAWN_MESSAGE]]
    ELSE IF p.duration > timeout
    THEN [NoCall EXCEPT !.timed_out = TRUE, !.value = TimeoutRecord]
    ELSE IF p.returncode # 0
    THEN [NoCall EXCEPT !.raised = TRUE,
                        !.exc = [type |-> "RuntimeError",
                                 msg |-> <<"Claude CLI error: ">> \o p.stderr]]
    ELSE Resolve(Strip(p.stdout))

---------------------------------------------------------------------------
(* main *)

\* an error record without the error field
ErrorRecord_no_error(e) ==
    JObj(<< <<K_score, JNum(0)>>,
            <<K_breakdown, ZeroBreakdown>>,
            <<K_summary, JStr(<<"AI review error: ">> \o e.msg)>>,
            <<K_recommendation, JStr(W_review)>> >>)

\* an error record without the breakdown
ErrorRecord_no_breakdown(e) ==
    JObj(<< <<K_score, JNum(0)>>,
            <<K_summary, JStr(<<"AI review error: ">> \o e.msg)>>,
            <<K_recommendation, JStr(W_review)>>,
            <<K_error, JStr(e.msg)>> >>)

\* the result main builds in its except block from the exception e
ErrorRecord(e) ==
    JObj(<< <<K_score, JNum(0)>>,
            <<K_problems_found, JArr(<<>>)>>,
            <<K_problems_fixed, JArr(<<>>)>>,
            <<K_breakdown, ZeroBreakdown>>,
            <<K_summary, JStr(<<"AI review error: ">> \o e.msg
                              \o <<". Manual check required.">>)>>,
            <<K_strengths, JArr(<<>>)>>,
            <<K_improvements, JArr(<<>>)>>,
            <<K_recommendation, JStr(W_review)>>,
            <<K_error, JStr(e.msg)>> >>)

\* an except block that gives up: a failed call ends the run at once
StageAfterCall_gives_up(raised, timed_out) ==
    IF raised THEN "Done" ELSE IF timed_out THEN "TimedOut" ELSE "Resolved"

\* the stage main is in once the try statement is over
StageAfterCall(raised, timed_out) ==
    IF raised THEN "Failed" ELSE IF timed_out THEN "TimedOut" ELSE "Resolved"

\* result.get(key, 'N/A') as the f-string formats it
FieldText(result, key) ==
    IF HasKey(result, key) THEN PyStr(GetKey(result, key)) ELSE NOT_AVAILABLE

\* the two lines of the summary
SummaryLines(result) ==
    << <<"Score: ">> \o FieldText(result, K_score) \o <<"/", "1", "0", "0">>,
       <<"Recommendation: ">> \o FieldText(result, K_recommendation) >>

\* an exit status that looks for the error key, not for its truth value
ExitStatus_by_key(result) == IF HasKey(result, K_error) THEN 1 ELSE 0

\* the exit status of a run that reaches the end of main
ExitStatus(result) == IF Truthy(DictGet(result, K_error)) THEN 1 ELSE 0

---------------------------------------------------------------------------
(* The inputs of a run: the two files, the environment and what the        *)
(* external process does                                                   *)

\* the longest text drawn exhaustively from Alphabet
MaxLen == 3

Alphabet == {"{", "}", "\"", "\\", "1", " "}

\* every text over Alphabet of at most n characters
TextsUpTo(n) == UNION {[1..k -> Alphabet] : k \in 0..n}

\* "key": value, as a tool writes it
Member(key, valueText) == EncodeString(key) \o <<":", " ">> \o valueText

\* {"score": 80, "recommendation": "pass"}
PassText ==
    <<"{">> \o Member(K_score, <<"8", "0">>) \o <<",", " ">>
    \o Member(K_recommendation, EncodeString(<<"p", "a", "s", "s">>)) \o <<"}">>

\* Notes: {"score": 45, "recommendation": "review"} -- end
NotesText ==
    <<"N", "o", "t", "e", "s", ":", " ", "{">>
    \o Member(K_score, <<"4", "5">>) \o <<",", " ">>
    \o Member(K_recommendation, EncodeString(W_review))
    \o <<"}", " ", "-", "-", " ", "e", "n", "d">>

\* {"score": 10, "recommendation": "reject", "breakdown": {}, "error": "x"}:
\* a record in which the tool itself reports an error
ToolErrorText ==
    <<"{">> \o Member(K_score, <<"1", "0">>) \o <<",", " ">>
    \o Member(K_recommendation, EncodeString(<<"r", "e", "j", "e", "c", "t">>)) \o <<",", " ">>
    \o Member(K_breakdown, <<"{", "}">>) \o <<",", " ">>
    \o Member(K_error, EncodeString(<<"x">>)) \o <<"}">>

\* {"score": 70, "error": ""}
EmptyErrorText ==
    <<"{">> \o Member(K_score, <<"7", "0">>) \o <<",", " ">>
    \o Member(K_error, EncodeString(<<>>)) \o <<"}">>

\* {"result": 1, "result": "{}"}: a key given twice
TwiceText ==
    <<"{">> \o Member(K_result, <<"1">>) \o <<",", " ">>
    \o Member(K_result, EncodeString(<<"{", "}">>)) \o <<"}">>

\* [1, {"a": null}]
ListText ==
    <<"[", "1", ",", " ", "{">> \o Member(<<"a">>, <<"n", "u", "l", "l">>) \o <<"}", "]">>

\* {"score": {"a": [true, "b\\"]}, "recommendation": null}: fields that
\* are no number and no string
OddText ==
    <<"{">> \o Member(K_score,
                      <<"{">> \o Member(<<"a">>, <<"[", "t", "r", "u", "e", ",", " ">>
                                                 \o EncodeString(<<"b", "\\">>) \o <<"]">>)
                      \o <<"}">>) \o <<",", " ">>
    \o Member(K_recommendation, <<"n", "u", "l", "l">>) \o <<"}">>

SampleTexts ==
    {PassText, NotesText, ToolErrorText, EmptyErrorText, TwiceText, ListText,
     OddText, <<"n", "u", "l", "l">>, <<"t", "r", "u", "e">>}

AnswerTexts == TextsUpTo(MaxLen) \cup SampleTexts

\* the ways the tool's standard output holds an answer text: as it is; as
\* the string under "result" of the envelope of --output-format json; as a
\* JSON string; as a JSON value under "result"
Plain(text) == text

Envelope(text) ==
    <<"{">> \o Member(<<"t", "y", "p", "e">>, EncodeString(K_result)) \o <<",", " ">>
    \o Member(K_result, EncodeString(text)) \o <<"}", "\n">>

Quoted(text) == EncodeString(text)

Embedded(text) == <<"{">> \o Member(K_result, text) \o <<"}">>

Stdouts ==
    UNION {{Plain(t), Envelope(t), Quoted(t), Embedded(t)} : t \in AnswerTexts}

Stderrs == {<<>>, <<"1">>, <<"\"", "\\">>}

\* what the external process can do: fail to start, run past the timeout,
\* end with a nonzero status, end with status 0 and some output
NoProc == [started |-> FALSE, duration |-> 0, returncode |-> 0, stdout |-> <<>>, stderr |-> <<>>]

ProcBehaviours ==
    {NoProc}
    \cup {[NoProc EXCEPT !.started = TRUE, !.duration = DEFAULT_TIMEOUT + 1]}
    \cup {[NoProc EXCEPT !.started = TRUE, !.duration = 1, !.returncode = 1, !.stderr = e] :
            e \in Stderrs}
    \cup {[NoProc EXCEPT !.started = TRUE, !.duration = 1, !.stdout = o] : o \in Stdouts}

DiffFiles == {Missing, File(<<>>), File(<<"+", "a">>)}

ReviewFiles == {Missing, File(<<"o", "k">>)}

---------------------------------------------------------------------------
(* The state of a run *)

VARIABLES
    pc,             \* the stage of main
    diff_file,      \* the file at args.diff
    review_file,    \* the file at args.review
    output_file,    \* the file at args.output
    diff_content,
    review_content,
    prompt,
    proc,           \* what the external process did
    call,           \* what call_claude_cli left behind
    result,
    invocations,    \* how many times subprocess.run was called
    writes,         \* how many times the output file was written
    console,        \* the lines on standard output
    stderr,         \* the messages on the diagnostic stream
    exit_code,      \* <<>> while running, <<status>> once the process is over
    uncaught        \* the exception that ended the process, "" if none

vars ==
    <<pc, diff_file, review_file, output_file, diff_content,
      review_content, prompt, proc, call, result, invocations, writes,
      console, stderr, exit_code, uncaught>>

Init ==
    /\ pc = "Idle"
    /\ diff_file \in DiffFiles
    /\ review_file \in ReviewFiles
    /\ output_file = Missing
    /\ diff_content = <<>>
    /\ review_content = <<>>
    /\ prompt = <<>>
    /\ proc = NoProc
    /\ call = NoCall
    /\ result = JNull
    /\ invocations = 0
    /\ writes = 0
    /\ console = <<>>
    /\ stderr = <<>>
    /\ exit_code = <<>>
    /\ uncaught = ""

\* main: the two read_file calls
ReadInputs ==
    /\ pc = "Idle"
    /\ diff_content' = read_file(diff_file)
    /\ review_content' = read_file(review_file)
    /\ pc' = "Loading"
    /\ UNCHANGED <<diff_file, review_file, output_file, prompt, proc, call, result,
                   invocations, writes, console, stderr, exit_code, uncaught>>

\* main: `if not diff_content`, with sys.exit(1)
CheckDiff ==
    /\ pc = "Loading"
    /\ IF diff_content = <<>>
       THEN /\ stderr' = Append(stderr, "error: diff file is empty or missing")
            /\ exit_code' = <<1>>
            /\ pc' = "Done"
       ELSE /\ pc' = "Prompting"
            /\ UNCHANGED <<stderr, exit_code>>
    /\ UNCHANGED <<diff_file, review_file, output_file, diff_content,
                   review_content, prompt, proc, call, result, invocations,
                   writes, console, uncaught>>

\* main: FULLSTACK_PROMPT.format(...)
BuildPrompt ==
    /\ pc = "Prompting"
    /\ prompt' = FULLSTACK_PROMPT(diff_content,
                     IF review_content # <<>> THEN review_content ELSE REVIEW_PLACEHOLDER)
    /\ pc' = "Invoking"
    /\ UNCHANGED <<diff_file, review_file, output_file, diff_content,
                   review_content, proc, call, result, invocations, writes,
                   console, stderr, exit_code, uncaught>>

\* main: the try statement, r being what call_claude_cli(prompt) did when
\* the external process behaved as p, and the except block
Invoked(p, r) ==
    /\ proc' = p
    /\ call' = r
    /\ invocations' = invocations + 1
    /\ result' = IF r.raised THEN ErrorRecord(r.exc) ELSE r.value
    /\ stderr' = IF r.raised THEN Append(stderr, "error calling Claude CLI") ELSE stderr
    /\ pc' = StageAfterCall(r.raised, r.timed_out)

Invoke ==
    /\ pc = "Invoking"
    /\ \E p \in ProcBehaviours : Invoked(p, call_claude_cli(prompt, DEFAULT_TIMEOUT, p))
    /\ UNCHANGED <<diff_file, review_file, output_file, diff_content,
                   review_content, prompt, writes, console, exit_code, uncaught>>

\* main: open(args.output, 'w') and json.dump
WriteOutput ==
    /\ pc \in {"TimedOut", "Failed", "Resolved"}
    /\ output_file' = File(Dump(result, 0))
    /\ writes' = writes + 1
    /\ pc' = "Written"
    /\ UNCHANGED <<diff_file, review_file, diff_content, review_content,
                   prompt, proc, call, result, invocations, console, stderr,
                   exit_code, uncaught>>

\* main: the two print calls; result.get of something that is no dict
\* raises AttributeError, which nothing catches
PrintSummary ==
    /\ pc = "Written"
    /\ IF IsDict(result)
       THEN /\ console' = console \o SummaryLines(result)
            /\ pc' = "Printed"
            /\ UNCHANGED <<exit_code, uncaught>>
       ELSE /\ uncaught' = "AttributeError"
            /\ exit_code' = <<1>>
            /\ pc' = "Done"
            /\ UNCHANGED console
    /\ UNCHANGED <<diff_file, review_file, output_file, diff_content,
                   review_content, prompt, proc, call, result, invocations,
                   writes, stderr>>

\* main: `if result.get('error'): sys.exit(1)`, and the end of main
Exit ==
    /\ pc = "Printed"
    /\ exit_code' = <<ExitStatus(result)>>
    /\ pc' = "Done"
    /\ UNCHANGED <<diff_file, review_file, output_file, diff_content,
                   review_content, prompt, proc, call, result, invocations,
                   writes, console, stderr, uncaught>>

Next ==
    \/ ReadInputs
    \/ CheckDiff
    \/ BuildPrompt
    \/ Invoke
    \/ WriteOutput
    \/ PrintSummary
    \/ Exit

Spec == Init /\ [][Next]_vars

\* the process is single-threaded and runs on until it exits
FairSpec == Spec /\ WF_vars(Next)

---------------------------------------------------------------------------
(* Properties *)

\* the external process ran past the timeout
ProcTimedOut == invocations = 1 /\ proc.started /\ proc.duration > DEFAULT_TIMEOUT

\* the external process ended in time
ProcEnded == invocations = 1 /\ proc.started /\ proc.duration <= DEFAULT_TIMEOUT

\* the external process ended with status 0 and its response was parsed
ToolParsed == ProcEnded /\ proc.returncode = 0 /\ ~call.raised

\* every text handed to json.loads for the final result was refused, or
\* response_text is no text at all
Unparseable ==
    /\ ProcEnded /\ proc.returncode = 0
    /\ \A i \in 1..Len(call.attempts) : ~Loads(call.attempts[i]).ok

HasRequiredKeys(x) ==
    /\ IsDict(x)
    /\ HasKey(x, K_score) /\ HasKey(x, K_recommendation) /\ HasKey(x, K_breakdown)

\* every field of a breakdown is the number 0
AllZero(x) ==
    /\ IsDict(x)
    /\ Len(x.v) > 0
    /\ \A i \in 1..Len(x.v) : x.v[i][2] = JNum(0)

\* what the output file holds, read back
WrittenValue == Loads(output_file.content)

\* C1: in a run whose diff content is not empty the external tool is invoked
\* exactly once and the output file is written exactly once, after the
\* outcome of the invocation (timed out, failed, resolved) is known, and the
\* run then ends; no outcome leaves the output path unwritten.
C1_OneCallOneWrite ==
    /\ [](invocations <= 1 /\ writes <= 1)
    /\ [](pc \in {"TimedOut", "Failed", "Resolved"} => invocations = 1 /\ writes = 0)
    /\ [](writes = 1 => invocations = 1 /\ output_file.exists)
    /\ [](diff_content # <<>> =>
            <>(pc = "Done" /\ invocations = 1 /\ writes = 1 /\ output_file.exists))

C1_Witness ==
    /\ pc = "Done" /\ diff_content # <<>>
    /\ call.raised /\ invocations = 1 /\ writes = 1

\* C2: a review path that does not exist is read as empty review content
\* and the run goes on to build the prompt and invoke the tool; a diff path
\* that does not exist, or an empty diff, ends the run with exit code 1 and
\* the tool is never invoked in that run.
C2_MissingInputs ==
    /\ (~review_file.exists /\ pc # "Idle") => review_content = <<>>
    /\ (~review_file.exists /\ diff_file.exists /\ diff_file.content # <<>> /\ pc = "Done")
          => invocations = 1 /\ prompt # <<>>
    /\ (~diff_file.exists \/ diff_file.content = <<>>)
          => /\ invocations = 0
             /\ pc \in {"Idle", "Loading", "Done"}
             /\ pc = "Done" => exit_code = <<1>>

C2_Witness ==
    /\ ~review_file.exists /\ diff_file.exists /\ pc = "Done" /\ invocations = 1

\* the timeout's record: score 50, recommendation "review", a breakdown of
\* zeros, no error field
IsTimeoutShape(x) ==
    /\ HasRequiredKeys(x)
    /\ GetKey(x, K_score) = JNum(50)
    /\ GetKey(x, K_recommendation) = JStr(W_review)
    /\ AllZero(GetKey(x, K_breakdown))
    /\ ~HasKey(x, K_error)

IsErrorShape(x) ==
    /\ HasRequiredKeys(x)
    /\ GetKey(x, K_score) = JNum(0)
    /\ GetKey(x, K_recommendation) = JStr(W_review)
    /\ HasKey(x, K_error)
    /\ IsStr(GetKey(x, K_error))
    /\ GetKey(x, K_error).v # <<>>

\* C4: when the external process ends with a nonzero status, or its
\* response cannot be parsed by any step of the fallback chain, the failure
\* is caught by main, turned into an error record (score 0, recommendation
\* "review", an error field that is not empty) that is written, and the
\* exit code is 1, the same for both kinds of failure.
C4_FailureHandled ==
    (ProcEnded /\ (proc.returncode # 0 \/ Unparseable)) =>
        /\ call.raised
        /\ uncaught = ""
        /\ IsErrorShape(result)
        /\ GetKey(result, K_error) = JStr(call.exc.msg)
        /\ pc = "Done" =>
              /\ writes = 1 /\ exit_code = <<1>>
              /\ LET w == WrittenValue IN w.ok /\ w.val = result

C4_Witness ==
    /\ ProcEnded /\ Unparseable /\ pc = "Done" /\ exit_code = <<1>>
    /\ call.exc.type = "JSONDecodeError"

\* C5, as claimed: when the tool ends with status 0 and its response is
\* parsed into a record the exit code is 0, also when the record carries an
\* error field of the tool's own; exit code 1 occurs only for a missing or
\* empty diff or when call_claude_cli raised.
C5_AsClaimed ==
    pc = "Done" =>
        /\ (ToolParsed /\ IsDict(result)) => exit_code = <<0>>
        /\ exit_code = <<1>> => (diff_content = <<>> \/ call.raised)

\* C5, amended: when the tool ends with status 0 and its response is parsed
\* into a JSON object the exit code is 0 exactly when the object's error
\* field is absent or false in Python's sense, and 1 when it is true; when
\* the response is parsed into anything else the run ends with exit code 1
\* on an uncaught AttributeError; exit code 1 occurs only for a missing or
\* empty diff, when call_claude_cli raised, and in those two cases.
C5_ExitCode ==
    pc = "Done" =>
        /\ exit_code \in {<<0>>, <<1>>}
        /\ (ToolParsed /\ IsDict(result)) =>
              /\ uncaught = ""
              /\ exit_code = <<0>> <=>
                    (~HasKey(result, K_error) \/ ~Truthy(GetKey(result, K_error)))
        /\ (ToolParsed /\ ~IsDict(result)) =>
              exit_code = <<1>> /\ uncaught = "AttributeError"
        /\ exit_code = <<1>> =>
              \/ diff_content = <<>>
              \/ call.raised
              \/ ToolParsed /\ ~IsDict(result)
              \/ ToolParsed /\ HasKey(result, K_error) /\ Truthy(GetKey(result, K_error))

C5_Witness ==
    /\ pc = "Done" /\ ToolParsed /\ IsDict(result)
    /\ HasKey(result, K_error) /\ GetKey(result, K_error) = JStr(<<"x">>)
    /\ exit_code = <<1>>

\* C6, as claimed: whatever the external tool does, the document written to
\* the output file is valid JSON that holds at least the keys score,
\* recommendation and breakdown.
C6_AsClaimed ==
    writes = 1 => LET w == WrittenValue IN w.ok /\ HasRequiredKeys(w.val)

\* C6, amended: whatever the external tool does, the document written to the
\* output file is valid JSON and reads back as the result; it holds the keys
\* score, recommendation and breakdown when the result is the timeout's
\* record or the handler's error record; a response of the tool that was
\* parsed is written as it was parsed, with the keys it has and no others.
C6_ValidDocument ==
    /\ writes = 0 => ~output_file.exists
    /\ writes = 1 =>
          LET w == WrittenValue IN
          /\ output_file.exists
          /\ w.ok
          /\ w.val = result
          /\ (call.raised \/ call.timed_out) => HasRequiredKeys(w.val)
          /\ ToolParsed =>
                /\ Len(call.attempts) > 0
                /\ w.val = Loads(call.attempts[Len(call.attempts)]).val

C6_Witness ==
    /\ writes = 1 /\ ToolParsed
    /\ LET w == WrittenValue IN w.ok /\ IsDict(w.val) /\ ~HasKey(w.val, K_score)

\* {"score": 80, "recommendation": "pass"}
PassObject ==
    JObj(<< <<K_score, JNum(80)>>,
            <<K_recommendation, JStr(<<"p", "a", "s", "s">>)>> >>)

\* the value under "result" of a parsed object (the last, if it is given
\* more than once)
ResultMember(x) == x.v[CHOOSE i \in 1..Len(x.v) : x.v[i][1] = K_result][2]

\* C7: the candidate text is the value of "result" when the raw text parses
\* to a mapping with that key, the parsed string when it parses to a string,
\* the raw text when it parses to anything else or does not parse; the
\* resolved result is the parse of the candidate (the envelope whose result
\* is the text {"score": 80, "recommendation": "pass"} resolves to exactly
\* that object).
C7_Unwrapping ==
    call.unwrapped =>
        LET raw   == call.response
            outer == Loads(raw)
            text  == call.response_text
        IN
        /\ (outer.ok /\ outer.val.t = "obj" /\ \E i \in 1..Len(outer.val.v) : outer.val.v[i][1] = K_result)
              => text = ResultMember(outer.val)
        /\ (outer.ok /\ outer.val.t = "str") => text = outer.val
        /\ (outer.ok /\ outer.val.t \notin {"obj", "str"}) => text = JStr(raw)
        /\ (outer.ok /\ outer.val.t = "obj" /\ \A i \in 1..Len(outer.val.v) : outer.val.v[i][1] # K_result)
              => text = JStr(raw)
        /\ ~outer.ok => text = JStr(raw)
        /\ (text.t = "str" /\ Loads(text.v).ok)
              => ~call.raised /\ call.value = Loads(text.v).val /\ result = call.value
        /\ proc.stdout = Envelope(PassText) => result = PassObject

C7_Witness ==
    /\ call.unwrapped /\ proc.stdout = Envelope(PassText)
    /\ call.response_text = JStr(PassText) /\ result = PassObject

\* C8: the brace scan is attempted only after the direct parse of the
\* candidate has failed; when the candidate holds a '{' whose first
\* occurrence precedes the last '}', the text handed to the parser is
\* exactly the candidate from the first '{' to the last '}', both included;
\* when there is no '{', no '}', or the last '}' precedes the first '{', no
\* substring is parsed.
C8_BraceScan ==
    (call.unwrapped /\ IsStr(call.response_text)) =>
        LET text   == call.response_text.v
            opens  == {i \in 1..Len(text) : text[i] = "{"}
            closes == {i \in 1..Len(text) : text[i] = "}"}
            first  == CHOOSE i \in opens : \A o \in opens : i <= o
            last   == CHOOSE i \in closes : \A c \in closes : c <= i
            braces == opens # {} /\ closes # {} /\ first < last
        IN
        /\ Len(call.attempts) \in {1, 2}
        /\ call.attempts[1] = text
        /\ Len(call.attempts) = 2 <=> (~Loads(text).ok /\ braces)
        /\ Len(call.attempts) = 2 =>
              /\ call.attempts[2] = [n \in 1..(last - first + 1) |-> text[first + n - 1]]
              /\ Head(call.attempts[2]) = "{"
              /\ call.attempts[2][Len(call.attempts[2])] = "}"

C8_Witness ==
    /\ call.unwrapped /\ call.response_text = JStr(NotesText)
    /\ Len(call.attempts) = 2
    /\ Len(call.attempts[2]) < Len(NotesText)
    /\ ~call.raised

\* C9, as claimed: when every parsing attempt of the fallback chain fails
\* (the direct parse of the candidate text fails and the text between the
\* braces is absent or fails to parse too), call_claude_cli fails with the
\* "response unparseable" condition, whose message carries the first 500
\* characters of the candidate text.
C9_AsClaimed ==
    (Unparseable /\ call.unwrapped /\ IsStr(call.response_text)) =>
        /\ call.raised
        /\ call.exc.type = "ValueError"
        /\ call.exc.msg = <<"Could not parse JSON from the response: ">>
                          \o SubSeq(call.response_text.v, 1,
                                    IF Len(call.response_text.v) < 500
                                    THEN Len(call.response_text.v) ELSE 500)

\* C10, as claimed: once a result has been written to the output file the
\* two lines of the summary are printed, a field the record lacks shown as
\* N/A, whatever value the response resolver returned.
C10_AsClaimed ==
    (pc = "Done" /\ writes = 1) =>
        /\ uncaught = ""
        /\ Len(console) = 2

=============================================================================
